---- MODULE Spec2Model ----
(***************************************************************************)
(* State-machine model of ScanSurface (radiometric_measurement.py): the    *)
(* interrupt-driven homing sequence, the queue.Queue barriers, the scan    *)
(* plan of start_measurement and the worker loop.                          *)
(*                                                                         *)
(* Two execution contexts are modelled: the main script context (variable  *)
(* pc is its position) and the Tinkerforge callback context (the actions   *)
(* Interrupt and MotorArrive run one whole callback each).                 *)
(* Lengths are integers in units of 0.005 cm, so 0.195 cm = 39,            *)
(* 0.39 cm = 78, 0.585 cm = 117 and 0.2 cm = 40.                           *)
(***************************************************************************)
EXTENDS Integers, Sequences, FiniteSets, TLC

VARIABLES
    pc,               \* position of the main script context
    status,           \* self.status
    port,             \* value of port "a" of the IO-16 bricklet
    home_queue,       \* self.home_queue: [size, unf] (qsize(), unfinished_tasks)
    s1_queue,         \* unfinished_tasks of self.s1_queue
    s2_queue,         \* unfinished_tasks of self.s2_queue
    z_goto_queue,     \* unfinished_tasks of self.z_goto_queue
    goto_queue,       \* self.goto_queue: [items, unf]
    spec_queue,       \* number of markers in self.spec_queue
    measure_queue,    \* unfinished_tasks of self.measure_queue
    bool_home_x, bool_home_y, bool_home_z,
    z_is_homed, is_homed,
    home_counter, home_counter2,
    stepper,          \* 1..3 -> [pos, rem, run, fwd, vel, on]
    cb_registered,    \* position-reached callbacks of steppers 1 and 2 registered
    z_queue, int_time_queue, int_time,
    measurements, x_start, y_start,
    item,             \* the plan entry the worker holds
    measured,         \* entries handed to spectrometer() in this slice, in order
    op,               \* the operation or callback that ran last
    arg,              \* its argument (mask, target, keyword)
    err,              \* the exception it raised, "none" if it returned
    out,              \* the device commands it issued, in order
    logged,           \* the write_out messages it appended to write_out_buffer
    script,           \* progress of the documented interrupt sequence of this homing run
    entry,            \* the mask home() read when this homing run began with budget 3
    calls,            \* number of public operations the script has invoked
    retracts          \* number of first-contact retractions issued so far

vars == <<pc, status, port, home_queue, s1_queue, s2_queue, z_goto_queue,
          goto_queue, spec_queue, measure_queue, bool_home_x, bool_home_y,
          bool_home_z, z_is_homed, is_homed, home_counter, home_counter2,
          stepper, cb_registered, z_queue, int_time_queue, int_time,
          measurements, x_start, y_start, item, measured,
          op, arg, err, out, logged, script, entry, calls, retracts>>

----------------------------------------------------------------------------
(* Bounds of the model *)

\* largest grid size drawn at construction
MaxN == 3
\* number of public operations the script invokes after connect()
MaxCalls == 2
\* largest value of a retry counter (home_counter, home_counter2)
MaxRetry == 1
\* number of first-contact retractions the end-stops cause
MaxRetract == 2
\* number of manual_homing() calls of a script that homes repeatedly
MaxRehome == 3
\* a stepper driven forward is observed while within this many steps of 0
MaxFwd == 1
\* travel of the XY stage in steps: a longer move ends at an end-stop
Travel == 50000

(* Program constants *)

max_vel == 10000
HomeVel == 2000
RetryVel == 1000
Traverse == 100000
Retract == 160
ZBackSteps == 21000
ConnectSteps == 1600
ZVel == 13000
InitialTokens == 3
Spacing == 78
HalfSpacing == 39
ParkPos == 40
ZMax == 55

\* masks of port "a": 255 all open, 253 Y closed, 252 X and Y closed,
\* 248 X, Y and Z closed, 251 only Z closed, 254 only X closed
Masks == {248, 251, 252, 253, 254, 255}
Steppers == {1, 2, 3}
Keywords == {"idle", "homing", "measuring", "standby"}
StartXs == {0, -117}
StartYs == {0, -195}
GotoTargets == {<<0, 0>>, <<78, 0>>}
SliceLists == {<<10>>, <<10, 60>>}
IntTimeLists == {<<1>>, <<1, 2>>}

\* the documented sequence after an all-open entry: Y contact, Y open,
\* Y contact, X contact, X open, X contact, Z contact
Documented == <<253, 255, 253, 252, 253, 252, 248>>

----------------------------------------------------------------------------
(* queue.Queue *)

\* Queue(): no items, no unfinished tasks
NewQueue == [size |-> 0, unf |-> 0]

\* Queue.put on a queue nobody gets from
QPut(q) == [size |-> q.size + 1, unf |-> q.unf + 1]

\* a task_done that never raises
TaskDoneUnchecked(unf) == FALSE

\* Queue.task_done raises ValueError when called too many times
TaskDoneRaises(unf) == unf - 1 < 0

\* Queue.task_done: the count after a call that does not raise
TaskDone(unf) == unf - 1

\* a join that returns one task early
JoinableEarly(unf) == unf <= 1

\* Queue.join returns once unfinished_tasks is 0
Joinable(unf) == unf = 0

----------------------------------------------------------------------------
(* Stepper bricks.  A context c is the part of the state a callback or     *)
(* home() works on: c.st the steppers, c.out the commands issued, c.log    *)
(* the messages written, c.ex the exception that ended it.                 *)

Cmd(c, name, i, n) == [c EXCEPT !.out = Append(@, <<name, i, n>>)]

WriteOut(c, msg) == [c EXCEPT !.log = Append(@, msg)]

\* a move of n steps relative to the current position; its end is reported
\* by the position-reached callback (run: that report is outstanding)
set_steps(c, i, n) ==
    Cmd([c EXCEPT !.st[i].rem = n, !.st[i].run = TRUE, !.st[i].fwd = FALSE],
        "set_steps", i, n)

set_target_position(c, i, p) ==
    Cmd([c EXCEPT !.st[i].rem = p - c.st[i].pos, !.st[i].run = TRUE,
                  !.st[i].fwd = FALSE],
        "set_target_position", i, p)

drive_forward(c, i) ==
    Cmd([c EXCEPT !.st[i].rem = 0, !.st[i].run = FALSE, !.st[i].fwd = TRUE],
        "drive_forward", i, 0)

full_brake(c, i) ==
    Cmd([c EXCEPT !.st[i].rem = 0, !.st[i].run = FALSE, !.st[i].fwd = FALSE],
        "full_brake", i, 0)

set_max_velocity(c, i, v) ==
    Cmd([c EXCEPT !.st[i].vel = v], "set_max_velocity", i, v)

set_current_position(c, i, p) ==
    Cmd([c EXCEPT !.st[i].pos = p], "set_current_position", i, p)

enable(c, i) == Cmd([c EXCEPT !.st[i].on = TRUE], "enable", i, 0)

disable(c, i) == Cmd([c EXCEPT !.st[i].on = FALSE], "disable", i, 0)

\* self.home_queue.task_done() inside a callback
home_task_done(c) ==
    IF TaskDoneRaises(c.hq.unf)
    THEN [c EXCEPT !.ex = "ValueError"]
    ELSE [c EXCEPT !.hq.unf = TaskDone(c.hq.unf)]

\* the context built from the current state
Ctx == [st |-> stepper, hq |-> home_queue,
        bx |-> bool_home_x, by |-> bool_home_y, bz |-> bool_home_z,
        zh |-> z_is_homed, hc |-> home_counter, hc2 |-> home_counter2,
        rt |-> retracts, sh |-> FALSE, out |-> <<>>, log |-> <<>>, ex |-> "none"]

----------------------------------------------------------------------------
(* home() *)

\* the guard of home(): "qsize() <= 3 > 0" passes, else qsize() == 0 raises
HomeRaises(q) == ~(q.size <= 3 /\ 3 > 0) /\ q.size = 0

\* home() driving both steppers the same way when all end-stops are open
homeSameWay(c, rd) ==
    IF HomeRaises(c.hq) THEN [c EXCEPT !.ex = "Exception"]
    ELSE
    LET c1 == enable(enable(set_max_velocity(set_max_velocity(c, 1, HomeVel),
                                             2, HomeVel), 1), 2)
    IN  IF rd[1] = 255 THEN
            set_steps(set_steps(
                [WriteOut(c1, "homing y process started") EXCEPT !.by = TRUE],
                1, -Traverse), 2, -Traverse)
        ELSE IF rd[2] = 253 THEN
            set_steps(set_steps(
                [WriteOut(c1, "homing x process started") EXCEPT !.bx = TRUE],
                1, -Traverse), 2, -Traverse)
        ELSE IF rd[3] = 252 THEN
            drive_forward(
                [WriteOut(c1, "homing z process started") EXCEPT !.bz = TRUE], 3)
        ELSE IF rd[4] = 248 THEN WriteOut(c1, "homing finished")
        ELSE IF rd[5] = 251 THEN
            set_steps([c1 EXCEPT !.bz = TRUE], 3, -ZBackSteps)
        ELSE c1

\* home(); rd[k] is the value the k-th get_port("a") of the if-chain returns
home(c, rd) ==
    IF HomeRaises(c.hq) THEN [c EXCEPT !.ex = "Exception"]
    ELSE
    LET c1 == enable(enable(set_max_velocity(set_max_velocity(c, 1, HomeVel),
                                             2, HomeVel), 1), 2)
    IN  IF rd[1] = 255 THEN
            set_steps(set_steps(
                [WriteOut(c1, "homing y process started") EXCEPT !.by = TRUE],
                1, -Traverse), 2, Traverse)
        ELSE IF rd[2] = 253 THEN
            set_steps(set_steps(
                [WriteOut(c1, "homing x process started") EXCEPT !.bx = TRUE],
                1, -Traverse), 2, -Traverse)
        ELSE IF rd[3] = 252 THEN
            drive_forward(
                [WriteOut(c1, "homing z process started") EXCEPT !.bz = TRUE], 3)
        ELSE IF rd[4] = 248 THEN WriteOut(c1, "homing finished")
        ELSE IF rd[5] = 251 THEN
            set_steps([c1 EXCEPT !.bz = TRUE], 3, -ZBackSteps)
        ELSE c1

----------------------------------------------------------------------------
(* cb_interrupt(port, interrupt_mask, value_mask) *)

\* the 248 branch without stepper3.set_current_position(0)
OnMask248NoZero(c, vm) ==
    IF vm # 248 THEN c
    ELSE IF c.bz THEN
        home_task_done(WriteOut(
            [enable(disable(full_brake(c, 3), 3), 3)
                EXCEPT !.bz = FALSE, !.zh = TRUE],
            "z homed"))
    ELSE WriteOut(disable(c, 3), "Z triggered during measurement, stopping")

\* value_mask == 248
OnMask248(c, vm) ==
    IF vm # 248 THEN c
    ELSE IF c.bz THEN
        home_task_done(WriteOut(
            [set_current_position(enable(disable(full_brake(c, 3), 3), 3), 3, 0)
                EXCEPT !.bz = FALSE, !.zh = TRUE],
            "z homed"))
    ELSE WriteOut(disable(c, 3), "Z triggered during measurement, stopping")

\* value_mask == 252 and bool_home_x
OnMask252(c, vm) ==
    IF c.ex # "none" \/ ~(vm = 252 /\ c.bx) THEN c
    ELSE
    LET c1 == WriteOut(full_brake(full_brake(c, 1), 2), "Endstop x triggered")
    IN  IF c1.bx /\ c1.hc2 = 0 THEN
            set_steps(set_steps(
                set_max_velocity(set_max_velocity(
                    [WriteOut(c1, "first contact, retracting")
                        EXCEPT !.rt = c.rt + 1], 1, HomeVel),
                    2, HomeVel),
                1, Retract), 2, Retract)
        ELSE IF c1.bx /\ c1.hc2 >= 1 THEN
            LET c2 == home_task_done(WriteOut(
                        set_current_position(set_current_position(
                            WriteOut([c1 EXCEPT !.bx = FALSE], "driving home"),
                            1, 0), 2, 0),
                        "homing process x finished"))
            IN  IF c2.ex # "none" THEN c2 ELSE [c2 EXCEPT !.sh = TRUE]
        ELSE c1

\* first contact of the Y end-stop (home_counter == 0)
YFirstContact(c) ==
    IF c.by /\ c.hc = 0 THEN
        set_steps(set_steps(
            set_max_velocity(set_max_velocity(
                [WriteOut(c, "first contact, retracting")
                    EXCEPT !.rt = c.rt + 1], 1, HomeVel),
                2, HomeVel),
            1, Retract), 2, -Retract)
    ELSE c

\* later contact of the Y end-stop (home_counter > 0)
YFinalize(c) ==
    IF c.by /\ c.hc > 0 THEN
        LET c2 == home_task_done(WriteOut(
                    set_current_position(set_current_position(
                        WriteOut([c EXCEPT !.by = FALSE], "driving home"),
                        1, 0), 2, 0),
                    "homing process y finished"))
        IN  IF c2.ex # "none" THEN c2 ELSE [c2 EXCEPT !.sh = TRUE]
    ELSE c

\* value_mask == 253: Y contact while homing Y, else X open while homing X
OnMask253(c, vm) ==
    IF c.ex # "none" THEN c
    ELSE IF vm = 253 /\ c.by THEN
        YFinalize(YFirstContact(
            WriteOut(full_brake(full_brake(c, 1), 2), "Endstop y triggered")))
    ELSE IF c.bx /\ vm = 253 THEN
        set_steps(set_steps(
            set_max_velocity(set_max_velocity(
                [WriteOut(c, "X Endstop open while homing")
                    EXCEPT !.hc2 = c.hc2 + 1],
                1, RetryVel), 2, RetryVel),
            1, -Retract), 2, -Retract)
    ELSE c

\* value_mask == 255
OnMask255(c, vm) ==
    IF c.ex # "none" THEN c
    ELSE IF c.by /\ vm = 255 THEN
        set_steps(set_steps(
            set_max_velocity(set_max_velocity(
                [WriteOut(c, "Y Endstop open while homing")
                    EXCEPT !.hc = c.hc + 1],
                1, RetryVel), 2, RetryVel),
            1, -Retract), 2, Retract)
    ELSE IF ~c.by /\ c.bz /\ vm = 255 THEN
        [full_brake(WriteOut([c EXCEPT !.bz = FALSE], "Z Endstop was triggered"), 3)
            EXCEPT !.sh = TRUE]
    ELSE IF ~c.bz /\ ~c.by /\ ~c.bx /\ vm = 255 THEN
        WriteOut(c, "Z Endstop opened")
    ELSE c

\* if self.should_home: home()
OnShouldHome(c, rd) ==
    IF c.ex # "none" \/ ~c.sh THEN c
    ELSE home([c EXCEPT !.sh = FALSE], rd)

\* cb_interrupt without the test of self.status
cb_interrupt_any_status(c, st, vm, rd) ==
    OnShouldHome(OnMask255(OnMask253(OnMask252(OnMask248(c, vm), vm), vm), vm), rd)

cb_interrupt(c, st, vm, rd) ==
    IF st = "homing" THEN
        OnShouldHome(OnMask255(OnMask253(OnMask252(OnMask248(c, vm), vm), vm), vm), rd)
    ELSE WriteOut(c, "Endstop hit while Status")

----------------------------------------------------------------------------
(* Scan plan and corner kinematics *)

Target(x, y) == [kind |-> "pos", x |-> x, y |-> y]
EndItem == [kind |-> "end", x |-> 0, y |-> 0]
NoItem == [kind |-> "none", x |-> 0, y |-> 0]

\* the inner for loop: n times "r += d; put_goto_position(r, t)"
RECURSIVE XRun(_, _, _, _)
XRun(r, t, d, n) ==
    IF n <= 0 THEN <<>>
    ELSE <<Target(r + d, t)>> \o XRun(r + d, t, d, n - 1)

\* one pass of the outer loop: a row of increasing x, then a row of decreasing x
RowPair(n, r0, t) ==
    LET rEnd == r0 + (n - 1) * Spacing
    IN  <<Target(r0, t + Spacing)>> \o XRun(r0, t + Spacing, Spacing, n - 1)
        \o <<Target(rEnd, t + 2 * Spacing)>>
        \o XRun(rEnd, t + 2 * Spacing, -Spacing, n - 1)

\* for y_direction in range(0, int(measurements / 2))
RECURSIVE RowPairs(_, _, _, _)
RowPairs(n, r0, t, k) ==
    IF k <= 0 THEN <<>>
    ELSE RowPair(n, r0, t) \o RowPairs(n, r0, t + 2 * Spacing, k - 1)

\* the last row of an odd grid reads r, which only the outer loop assigns
PlanRaises(n) == n % 2 = 1 /\ n \div 2 = 0

\* the entries start_measurement puts on goto_queue before 'end'
Plan(n, xs, ys) ==
    LET r0 == Spacing + HalfSpacing + xs
        t0 == HalfSpacing + ys
        tl == t0 + 2 * Spacing * (n \div 2)
    IN  RowPairs(n, r0, t0, n \div 2)
        \o (IF n % 2 = 1
            THEN <<Target(r0, tl + Spacing)>> \o XRun(r0, tl + Spacing, Spacing, n - 1)
            ELSE <<>>)

\* int(): truncation toward zero of a / b, b > 0
Trunc(a, b) == IF a >= 0 THEN a \div b ELSE -((-a) \div b)

\* int(333.33 * d - current) for a length d in units of 0.005 cm
Steps(d, current) == Trunc(33333 * d - 20000 * current, 20000)

\* round(-1 * z_pos * (6400 / 0.3)) for z_pos in whole cm
ZTarget(z) == -((2 * 64000 * z + 3) \div 6)

----------------------------------------------------------------------------
(* State after construction *)

\* __init__ without the comparison of the list lengths
MatchingAlways(zs, its) == TRUE

\* __init__: len(self.slicelist) == len(self.int_time_list)
Matching(zs, its) == Len(zs) = Len(its)

\* __init__: three home_queue.put(None), flags cleared, status 'idle'; lists
\* of different lengths end it in write_out (AttributeError, the buffer does
\* not exist yet) or, with log_output False, in exit()
Construct(n, xs, ys, zs, its) ==
    /\ IF Matching(zs, its) THEN pc = "new" /\ err = "none"
       ELSE pc = "aborted" /\ err \in {"AttributeError", "SystemExit"}
    /\ status = "idle"
    /\ port = 255
    /\ home_queue = QPut(QPut(QPut(NewQueue)))
    /\ s1_queue = 0 /\ s2_queue = 0 /\ z_goto_queue = 0
    /\ goto_queue = [items |-> <<>>, unf |-> 0]
    /\ spec_queue = 0 /\ measure_queue = 0
    /\ bool_home_x = FALSE /\ bool_home_y = FALSE /\ bool_home_z = FALSE
    /\ z_is_homed = FALSE /\ is_homed = FALSE
    /\ home_counter = 0 /\ home_counter2 = 0
    /\ stepper = [i \in Steppers |->
                    [pos |-> 0, rem |-> 0, run |-> FALSE, fwd |-> FALSE,
                     vel |-> 0, on |-> FALSE]]
    /\ cb_registered = FALSE
    /\ z_queue = zs
    /\ int_time_queue = its
    /\ int_time = Head(its)
    /\ measurements = n
    /\ x_start = xs /\ y_start = ys
    /\ item = NoItem
    /\ measured = <<>>
    /\ op = "init" /\ arg = 0
    /\ out = <<>> /\ logged = <<>>
    /\ script = -1
    /\ entry = -1
    /\ calls = 0
    /\ retracts = 0

\* ScanSurface(measurements=2, slicelist=[10], int_time_list=[1])
Init == Construct(2, 0, 0, <<10>>, <<1>>)

\* every grid size, start offset, slice list and integration-time list of
\* the model
InitScan ==
    \E n \in 1..MaxN, xs \in StartXs, ys \in StartYs, zs \in SliceLists,
       its \in IntTimeLists :
        Construct(n, xs, ys, zs, its)

\* the state a callback or home() leaves behind
Commit(c) ==
    /\ stepper' = c.st
    /\ home_queue' = c.hq
    /\ bool_home_x' = c.bx /\ bool_home_y' = c.by /\ bool_home_z' = c.bz
    /\ z_is_homed' = c.zh
    /\ home_counter' = c.hc /\ home_counter2' = c.hc2
    /\ retracts' = c.rt
    /\ out' = c.out /\ logged' = c.log /\ err' = c.ex

\* the five get_port("a") calls of home() when the port holds p throughout
Reads(p) == <<p, p, p, p, p>>

config == <<measurements, x_start, y_start>>
barriers == <<s1_queue, s2_queue, z_goto_queue>>
scan == <<goto_queue, spec_queue, measure_queue, item, measured>>
slices == <<z_queue, int_time_queue, int_time>>

----------------------------------------------------------------------------
(* Main context *)

\* connect(): bricks enabled, velocities set, stepper1.set_steps(1600),
\* cb_interrupt and z_reached registered
Connect ==
    /\ pc = "new"
    /\ LET c0 == enable(enable(enable(
                    disable(disable(disable(Ctx, 1), 2), 3), 1), 2), 3)
           c1 == set_max_velocity(set_max_velocity(set_max_velocity(
                    c0, 1, max_vel), 2, max_vel), 3, ZVel)
           c == set_steps(
                    set_max_velocity(set_max_velocity(c1, 1, RetryVel),
                                     2, RetryVel),
                    1, ConnectSteps)
       IN  Commit(c)
    /\ pc' = "ready"
    /\ op' = "connect" /\ arg' = 0
    /\ UNCHANGED <<status, port, barriers, scan, slices, config, is_homed,
                   cb_registered, script, entry, calls>>

\* manual_homing() up to home_queue.join()
manual_homing ==
    /\ pc = "ready"
    /\ calls' = calls + 1
    /\ LET c == home(WriteOut(Ctx, "Status changed to homing"), Reads(port))
       IN  /\ Commit(c)
           /\ pc' = IF c.ex = "none" THEN "mh_join" ELSE "ready"
    /\ status' = "homing"
    /\ script' = IF home_queue.unf = InitialTokens /\ port = 255 THEN 0 ELSE -1
    /\ entry' = IF home_queue.unf = InitialTokens THEN port ELSE -1
    /\ op' = "manual_homing" /\ arg' = 0
    /\ UNCHANGED <<port, barriers, scan, slices, config, is_homed, cb_registered>>

\* manual_homing() called by the script
ManualHoming == calls < MaxCalls /\ manual_homing

\* manual_homing() called again by a script that homes repeatedly
ManualHomingAgain == calls < MaxRehome /\ manual_homing

\* what follows home_queue.join() in manual_homing and start_measurement
AfterHomingJoin(c) ==
    set_max_velocity(set_max_velocity(WriteOut(c, "homing ended"), 1, max_vel),
                     2, max_vel)

\* manual_homing() from the return of home_queue.join()
ManualHomingJoined ==
    /\ pc = "mh_join"
    /\ Joinable(home_queue.unf)
    /\ Commit(WriteOut(AfterHomingJoin(Ctx), "Status changed to idle"))
    /\ cb_registered' = TRUE
    /\ is_homed' = TRUE
    /\ status' = "idle"
    /\ pc' = "ready"
    /\ script' = -1
    /\ entry' = -1
    /\ op' = "homing_joined" /\ arg' = 0
    /\ UNCHANGED <<port, barriers, scan, slices, config, calls>>

\* a range test that lets every z position pass
OutOfRangeNever(z) == FALSE

\* goto_z_position: z_pos < 0 or z_pos > 55
OutOfRange(z) == z < 0 \/ z > ZMax

\* goto_z_position(z_pos, True), but for its z_goto_queue.put(None)
goto_z_position(c, z) ==
    IF OutOfRange(z) THEN WriteOut(c, "z position outside boundaries")
    ELSE set_target_position(c, 3, ZTarget(z))

\* start_measurement from change_status('idle') to z_goto_queue.join()
ZStage(c) ==
    /\ Commit(goto_z_position(
            WriteOut(WriteOut(c, "Status changed to idle"), "z_pos"),
            Head(z_queue)))
    /\ z_goto_queue' = IF OutOfRange(Head(z_queue))
                        THEN z_goto_queue ELSE z_goto_queue + 1
    /\ z_queue' = Tail(z_queue)
    /\ status' = "idle"
    /\ pc' = "sm_zjoin"

\* start_measurement() up to home_queue.join(), or to z_goto_queue.join()
\* when the instance is homed; export() re-enters it for the next slice
StartMeasurement ==
    /\ \/ pc = "ready" /\ calls < MaxCalls /\ calls' = calls + 1
       \/ pc = "sm_next" /\ calls' = calls
    /\ op' = "start_measurement" /\ arg' = 0
    /\ IF int_time_queue = <<>> THEN
            /\ err' = "IndexError" /\ out' = <<>> /\ logged' = <<>>
            /\ pc' = "ready"
            /\ UNCHANGED <<status, port, home_queue, barriers, scan, slices,
                           config, bool_home_x, bool_home_y, bool_home_z,
                           z_is_homed, is_homed, home_counter, home_counter2,
                           stepper, cb_registered, script, entry, retracts>>
       ELSE
            /\ int_time' = Head(int_time_queue)
            /\ int_time_queue' = Tail(int_time_queue)
            /\ measured' = <<>>
            /\ UNCHANGED <<port, s1_queue, s2_queue, goto_queue, spec_queue,
                           measure_queue, item, config, is_homed, cb_registered>>
            /\ IF ~is_homed THEN
                    /\ LET c == home(WriteOut(WriteOut(Ctx, "Name"),
                                              "Status changed to homing"),
                                     Reads(port))
                       IN  /\ Commit(c)
                           /\ pc' = IF c.ex = "none" THEN "sm_hjoin" ELSE "ready"
                    /\ status' = "homing"
                    /\ script' = IF home_queue.unf = InitialTokens /\ port = 255
                                  THEN 0 ELSE -1
                    /\ entry' = IF home_queue.unf = InitialTokens THEN port ELSE -1
                    /\ UNCHANGED <<z_goto_queue, z_queue>>
               ELSE
                    /\ ZStage(WriteOut(Ctx, "Name"))
                    /\ UNCHANGED <<script, entry>>

\* start_measurement() from the return of home_queue.join()
StartHomingJoined ==
    /\ pc = "sm_hjoin"
    /\ Joinable(home_queue.unf)
    /\ ZStage(AfterHomingJoin(Ctx))
    /\ cb_registered' = TRUE
    /\ is_homed' = TRUE
    /\ script' = -1
    /\ entry' = -1
    /\ op' = "homing_joined" /\ arg' = 0
    /\ UNCHANGED <<port, s1_queue, s2_queue, scan, int_time_queue, int_time,
                   config, calls>>

\* start_measurement() from the return of z_goto_queue.join(): the plan is
\* put on goto_queue, then 'end', and worker('start') is entered
StartScan ==
    /\ pc = "sm_zjoin"
    /\ Joinable(z_goto_queue)
    /\ op' = "plan" /\ arg' = 0
    /\ IF PlanRaises(measurements) THEN
            /\ err' = "UnboundLocalError" /\ out' = <<>> /\ logged' = <<>>
            /\ pc' = "ready"
            /\ UNCHANGED <<status, stepper, goto_queue, spec_queue>>
       ELSE
            LET plan == Plan(measurements, x_start, y_start)
                c == set_max_velocity(set_max_velocity(Ctx, 1, max_vel), 2, max_vel)
            IN  /\ goto_queue' =
                        [items |-> goto_queue.items \o plan \o <<EndItem>>,
                         unf |-> goto_queue.unf + Len(plan) + 1]
                /\ spec_queue' = spec_queue + Len(plan)
                /\ status' = "measuring"
                /\ stepper' = c.st /\ out' = c.out
                /\ logged' = <<"Strating time", "Status changed to measuring", "all put">>
                /\ err' = "none"
                /\ pc' = "w_get"
    /\ UNCHANGED <<port, home_queue, barriers, measure_queue, item, measured,
                   slices, config, bool_home_x, bool_home_y, bool_home_z,
                   z_is_homed, is_homed, home_counter, home_counter2,
                   cb_registered, script, entry, calls, retracts>>

\* goto_position_inqueue without the two set_steps
TokensOnly(c, x, y) == c

\* goto_position_inqueue(item): a token on each axis barrier, then both moves
goto_position_inqueue(c, x, y) ==
    set_steps(set_steps(c, 1, Steps(x + y, c.st[1].pos)),
              2, Steps(x - y, c.st[2].pos))

\* a worker without the test for None
IsNoneNever(it) == FALSE

\* worker(): item is None
IsNone(it) == it.kind = "none"

\* a worker without the branch for the target (0, 0)
FastPathNever(it) == FALSE

\* a worker that parks the stage at (0, 0)
EndTargetOrigin == Target(0, 0)

\* worker(), entry 'end': goto_position_inqueue([0.2, 0.2])
EndTarget == Target(ParkPos, ParkPos)

\* a worker that takes every entry without waiting
FastPathAlways(it) == TRUE

\* worker(): item[0] == 0 and item[1] == 0, the entry is not waited for
FastPath(it) == it.x = 0 /\ it.y = 0

\* worker(): goto_queue.get() and the branch taken for the entry (the
\* status is tested once, on entry, right after change_status('measuring'))
WorkerGet ==
    /\ pc = "w_get"
    /\ goto_queue.items # <<>>
    /\ LET it == Head(goto_queue.items)
           rest == Tail(goto_queue.items)
           tgt == IF it.kind = "end" THEN EndTarget ELSE it
           c == IF IsNone(it) THEN WriteOut(Ctx, "item is None")
                ELSE goto_position_inqueue(Ctx, tgt.x, tgt.y)
           puts == IF IsNone(it) THEN 0 ELSE 1
       IN  /\ item' = it
           /\ stepper' = c.st /\ out' = c.out /\ logged' = c.log
           /\ s1_queue' = s1_queue + puts
           /\ s2_queue' = s2_queue + puts
           /\ IF IsNone(it) THEN
                    /\ goto_queue' = [items |-> rest,
                                       unf |-> TaskDone(goto_queue.unf)]
                    /\ pc' = "w_get"
              ELSE IF it.kind = "end" THEN
                    /\ goto_queue' = [goto_queue EXCEPT !.items = rest]
                    /\ pc' = "w_endjoin"
              ELSE IF FastPath(it) THEN
                    /\ goto_queue' = [items |-> rest,
                                       unf |-> TaskDone(goto_queue.unf)]
                    /\ pc' = "w_get"
              ELSE
                    /\ goto_queue' = [goto_queue EXCEPT !.items = rest]
                    /\ pc' = "w_join"
    /\ op' = "worker_get" /\ arg' = 0 /\ err' = "none"
    /\ UNCHANGED <<status, port, home_queue, z_goto_queue, spec_queue,
                   measure_queue, measured, slices, config, bool_home_x,
                   bool_home_y, bool_home_z, z_is_homed, is_homed, home_counter,
                   home_counter2, cb_registered, script, entry, calls, retracts>>

\* worker(): both axis joins have returned; measure(item) runs
\* spectrometer(item), which ends with measure_queue.task_done()
WorkerMeasure ==
    /\ pc = "w_join"
    /\ Joinable(s1_queue) /\ Joinable(s2_queue)
    /\ spec_queue > 0
    /\ spec_queue' = spec_queue - 1
    /\ measured' = Append(measured, item)
    /\ measure_queue' = TaskDone(measure_queue + 1)
    /\ goto_queue' = [goto_queue EXCEPT !.unf = TaskDone(@)]
    /\ pc' = "w_get"
    /\ op' = "measure" /\ arg' = 0 /\ err' = "none"
    /\ out' = <<>> /\ logged' = <<>>
    /\ UNCHANGED <<status, port, home_queue, barriers, item, slices, config,
                   bool_home_x, bool_home_y, bool_home_z, z_is_homed, is_homed,
                   home_counter, home_counter2, stepper, cb_registered, script, entry,
                   calls, retracts>>

\* worker(): after 'end' and the move to the park position both axis joins
\* have returned; the worker leaves its loop
WorkerEnd ==
    /\ pc = "w_endjoin"
    /\ Joinable(s1_queue) /\ Joinable(s2_queue)
    /\ goto_queue' = [goto_queue EXCEPT !.unf = TaskDone(@)]
    /\ pc' = "sm_gjoin"
    /\ op' = "worker_end" /\ arg' = 0 /\ err' = "none"
    /\ out' = <<>> /\ logged' = <<>>
    /\ UNCHANGED <<status, port, home_queue, barriers, spec_queue, measure_queue,
                   item, measured, slices, config, bool_home_x, bool_home_y,
                   bool_home_z, z_is_homed, is_homed, home_counter,
                   home_counter2, stepper, cb_registered, script, entry, calls, retracts>>

\* start_measurement() from the return of goto_queue.join(): status 'idle',
\* export(), which starts the next slice if z_queue is not empty
ScanJoined ==
    /\ pc = "sm_gjoin"
    /\ Joinable(goto_queue.unf)
    /\ status' = "idle"
    /\ pc' = IF z_queue # <<>> THEN "sm_next" ELSE "ready"
    /\ op' = "export" /\ arg' = 0 /\ err' = "none"
    /\ out' = <<>>
    /\ logged' = <<"Status changed to idle", "saturations detected", "start end",
                   "This took">>
    /\ UNCHANGED <<port, home_queue, barriers, scan, slices, config, bool_home_x,
                   bool_home_y, bool_home_z, z_is_homed, is_homed, home_counter,
                   home_counter2, stepper, cb_registered, script, entry, calls, retracts>>

\* a mode test that lets every mode pass
InAnyMode(st) == TRUE

\* goto_position: self.status is 'idle'
InIdleMode(st) == st = "idle"

\* goto_position(item)
GotoPosition(t) ==
    /\ pc = "ready" /\ calls < MaxCalls
    /\ calls' = calls + 1
    /\ IF InIdleMode(status) THEN
            LET c == goto_position_inqueue(
                        set_max_velocity(set_max_velocity(Ctx, 1, HomeVel),
                                         2, HomeVel), t[1], t[2])
            IN  stepper' = c.st /\ out' = c.out
       ELSE stepper' = stepper /\ out' = <<>>
    /\ op' = "goto_position" /\ arg' = t /\ err' = "none" /\ logged' = <<>>
    /\ UNCHANGED <<pc, status, port, home_queue, barriers, scan, slices, config,
                   bool_home_x, bool_home_y, bool_home_z, z_is_homed, is_homed,
                   home_counter, home_counter2, cb_registered, script, entry, retracts>>

\* "self.home_queue.qsize is 3" compares the bound method with 3
QsizeIs3 == FALSE

\* for i in range(0, n): task_done(), ended by the first call that raises
RECURSIVE Drain(_, _)
Drain(unf, n) ==
    IF n <= 0 THEN [unf |-> unf, ex |-> "none"]
    ELSE IF TaskDoneRaises(unf) THEN [unf |-> unf, ex |-> "ValueError"]
    ELSE Drain(TaskDone(unf), n - 1)

\* the body of reset_home_queue()
reset_home_queue ==
    /\ calls' = calls + 1
    /\ IF QsizeIs3 THEN
            /\ err' = "Exception" /\ logged' = <<>>
            /\ UNCHANGED home_queue
       ELSE
            LET d == Drain(home_queue.unf, home_queue.size)
            IN  IF d.ex # "none" THEN
                    /\ home_queue' = [home_queue EXCEPT !.unf = d.unf]
                    /\ err' = d.ex /\ logged' = <<>>
                ELSE
                    /\ home_queue' =
                            QPut(QPut(QPut([home_queue EXCEPT !.unf = d.unf])))
                    /\ err' = "none"
                    /\ logged' = <<"home_queue is set to 3">>
    /\ op' = "reset_home_queue" /\ arg' = 0 /\ out' = <<>>
    /\ UNCHANGED <<pc, status, port, barriers, scan, slices, config, bool_home_x,
                   bool_home_y, bool_home_z, z_is_homed, is_homed, home_counter,
                   home_counter2, stepper, cb_registered, script, entry, retracts>>

\* reset_home_queue() called by the script between two operations
ResetHomeQueue == pc = "ready" /\ calls < MaxCalls /\ reset_home_queue

\* reset_home_queue() called from a second thread while manual_homing waits
\* in home_queue.join()
ResetWhileHoming == pc = "mh_join" /\ calls < MaxCalls /\ reset_home_queue

\* change_status(string): "string is 'idle' or 'measuring' or 'homing'" is
\* true for every string
change_status(k) ==
    /\ pc = "ready" /\ calls < MaxCalls
    /\ calls' = calls + 1
    /\ status' = k
    /\ op' = "change_status" /\ arg' = k /\ err' = "none"
    /\ out' = <<>> /\ logged' = <<"Status changed">>
    /\ UNCHANGED <<pc, port, home_queue, barriers, scan, slices, config,
                   bool_home_x, bool_home_y, bool_home_z, z_is_homed, is_homed,
                   home_counter, home_counter2, stepper, cb_registered, script, entry,
                   retracts>>

----------------------------------------------------------------------------
(* Callback context *)

\* the port changes to m and cb_interrupt runs with value_mask = m
Interrupt(m) ==
    /\ pc \notin {"new", "aborted"}
    /\ m # port
    /\ LET c == cb_interrupt(Ctx, status, m, Reads(m))
       IN  /\ c.hc <= MaxRetry /\ c.hc2 <= MaxRetry /\ c.rt <= MaxRetract
           /\ Commit(c)
    /\ port' = m
    /\ script' = IF script \in 0..(Len(Documented) - 1) /\ m = Documented[script + 1]
                  THEN script + 1 ELSE -1
    /\ op' = "cb_interrupt" /\ arg' = m
    /\ UNCHANGED <<pc, status, barriers, scan, slices, config, is_homed,
                   cb_registered, calls, entry>>

\* s1arrived / s2arrived / z_reached: task_done on the stepper's queue
Arrived(unf) == IF TaskDoneRaises(unf) THEN unf ELSE TaskDone(unf)

\* a traversal of home() is longer than the travel of the XY stage: it ends
\* at the end-stop, not at its target
Completes(i, n) == i = 3 \/ (-Travel <= n /\ n <= Travel)

\* stepper i ends its move; its position-reached callback runs if registered
MotorArrive(i) ==
    /\ stepper[i].run /\ stepper[i].on /\ Completes(i, stepper[i].rem)
    /\ stepper' = [stepper EXCEPT ![i].pos = @ + stepper[i].rem,
                                   ![i].rem = 0, ![i].run = FALSE]
    /\ IF i = 3 THEN
            /\ z_goto_queue' = Arrived(z_goto_queue)
            /\ err' = IF TaskDoneRaises(z_goto_queue) THEN "ValueError" ELSE "none"
            /\ UNCHANGED <<s1_queue, s2_queue>>
       ELSE IF ~cb_registered THEN
            /\ err' = "none"
            /\ UNCHANGED barriers
       ELSE IF i = 1 THEN
            /\ s1_queue' = Arrived(s1_queue)
            /\ err' = IF TaskDoneRaises(s1_queue) THEN "ValueError" ELSE "none"
            /\ UNCHANGED <<s2_queue, z_goto_queue>>
       ELSE
            /\ s2_queue' = Arrived(s2_queue)
            /\ err' = IF TaskDoneRaises(s2_queue) THEN "ValueError" ELSE "none"
            /\ UNCHANGED <<s1_queue, z_goto_queue>>
    /\ op' = "position_reached" /\ arg' = 0
    /\ out' = <<>> /\ logged' = <<>>
    /\ UNCHANGED <<pc, status, port, home_queue, scan, slices, config,
                   bool_home_x, bool_home_y, bool_home_z, z_is_homed, is_homed,
                   home_counter, home_counter2, cb_registered, script, entry, calls,
                   retracts>>

\* a stepper driven forward (drive_forward) has moved one more step
MotorAdvance(i) ==
    /\ stepper[i].fwd /\ stepper[i].on
    /\ -MaxFwd < stepper[i].pos /\ stepper[i].pos < MaxFwd
    /\ stepper' = [stepper EXCEPT ![i].pos = @ + 1]
    /\ op' = "moving" /\ arg' = 0 /\ err' = "none"
    /\ out' = <<>> /\ logged' = <<>>
    /\ UNCHANGED <<pc, status, port, home_queue, barriers, scan, slices, config,
                   bool_home_x, bool_home_y, bool_home_z, z_is_homed, is_homed,
                   home_counter, home_counter2, cb_registered, script, entry, calls,
                   retracts>>

Next ==
    \/ Connect
    \/ ManualHoming
    \/ ManualHomingJoined
    \/ StartMeasurement
    \/ StartHomingJoined
    \/ StartScan
    \/ WorkerGet
    \/ WorkerMeasure
    \/ WorkerEnd
    \/ ScanJoined
    \/ \E t \in GotoTargets : GotoPosition(t)
    \/ ResetHomeQueue
    \/ \E k \in Keywords : change_status(k)
    \/ \E m \in Masks : Interrupt(m)
    \/ \E i \in Steppers : MotorArrive(i)
    \/ \E i \in Steppers : MotorAdvance(i)

Spec == Init /\ [][Next]_vars

\* the end-stops deliver the documented sequence while the stage homes
DocumentedInterrupt ==
    /\ status = "homing"
    /\ script \in 0..(Len(Documented) - 1)
    /\ Interrupt(Documented[script + 1])

\* one call of start_measurement() on every configuration, the end-stops
\* behaving as documented
NextScan ==
    \/ Connect
    \/ StartMeasurement
    \/ StartHomingJoined
    \/ StartScan
    \/ WorkerGet
    \/ WorkerMeasure
    \/ WorkerEnd
    \/ ScanJoined
    \/ DocumentedInterrupt
    \/ \E i \in Steppers : MotorArrive(i)
    \/ \E i \in Steppers : MotorAdvance(i)

SpecScan == InitScan /\ [][NextScan]_vars

\* the worker thread and export() run whenever they can, and a stepper that
\* is moving ends its move
FairScan ==
    /\ WF_vars(WorkerGet) /\ WF_vars(WorkerMeasure) /\ WF_vars(WorkerEnd)
    /\ WF_vars(ScanJoined)
    /\ \A i \in Steppers : WF_vars(MotorArrive(i))

SpecScanFair == InitScan /\ [][NextScan]_vars /\ FairScan

\* a script puts None on goto_queue before it starts the measurement
PutNone ==
    /\ pc = "ready" /\ calls = 0
    /\ goto_queue.items = <<>>
    /\ goto_queue' = [items |-> <<NoItem>>, unf |-> goto_queue.unf + 1]
    /\ op' = "put_none" /\ arg' = 0 /\ err' = "none"
    /\ out' = <<>> /\ logged' = <<>>
    /\ UNCHANGED <<pc, status, port, home_queue, barriers, spec_queue,
                   measure_queue, item, measured, slices, config, bool_home_x,
                   bool_home_y, bool_home_z, z_is_homed, is_homed, home_counter,
                   home_counter2, stepper, cb_registered, script, entry, calls,
                   retracts>>

\* one call of start_measurement() with or without a None entry ahead of
\* the plan
NextInject == NextScan \/ PutNone

SpecInject == InitScan /\ [][NextInject]_vars

\* manual_homing() under arbitrary interrupts, with reset_home_queue()
\* callable while the homing join is pending
NextHoming ==
    \/ Connect
    \/ ManualHoming
    \/ ManualHomingJoined
    \/ ResetWhileHoming
    \/ \E m \in Masks : Interrupt(m)
    \/ \E i \in Steppers : MotorArrive(i)
    \/ \E i \in Steppers : MotorAdvance(i)

SpecHoming == Init /\ [][NextHoming]_vars

\* the get_port("a") calls of home()'s if-chain when the port holds p during
\* the first k of them and m from then on
ReadsAcross(p, m, k) == [i \in 1..5 |-> IF i <= k THEN p ELSE m]

\* manual_homing() up to home_queue.join() while the port changes from its
\* value to m between two reads of home(); the interrupt of that change is
\* delivered once home() has returned, until then port is the mask delivered
\* last
ManualHomingRacing(m, k) ==
    /\ pc = "ready" /\ calls < MaxCalls
    /\ m # port
    /\ calls' = calls + 1
    /\ LET c == home(WriteOut(Ctx, "Status changed to homing"),
                     ReadsAcross(port, m, k))
       IN  /\ Commit(c)
           /\ pc' = IF c.ex = "none" THEN "mh_join" ELSE "ready"
    /\ status' = "homing"
    /\ script' = -1
    /\ entry' = -1
    /\ op' = "manual_homing" /\ arg' = ReadsAcross(port, m, k)
    /\ UNCHANGED <<port, barriers, scan, slices, config, is_homed, cb_registered>>

\* a script that calls manual_homing() repeatedly, under arbitrary interrupts
NextRehome ==
    \/ Connect
    \/ ManualHomingAgain
    \/ ManualHomingJoined
    \/ \E m \in Masks : Interrupt(m)
    \/ \E i \in Steppers : MotorArrive(i)
    \/ \E i \in Steppers : MotorAdvance(i)

SpecRehome == Init /\ [][NextRehome]_vars

\* manual_homing() with the end-stops moving while home() reads the port
NextRace ==
    \/ Connect
    \/ \E m \in Masks, k \in 0..5 : ManualHomingRacing(m, k)
    \/ ManualHomingJoined
    \/ \E m \in Masks : Interrupt(m)
    \/ \E i \in Steppers : MotorArrive(i)
    \/ \E i \in Steppers : MotorAdvance(i)

SpecRace == Init /\ [][NextRace]_vars

----------------------------------------------------------------------------
(* Properties *)

\* C1: reset_home_queue invoked while the budget (the unfinished count of
\* home_queue) is not 0 raises an error; invoked while the budget is 0 it
\* returns without error and leaves the budget at 3.
C1_ResetGuard ==
    [][ResetHomeQueue =>
          IF home_queue.unf = 0
          THEN err' = "none" /\ home_queue'.unf = InitialTokens
          ELSE err' # "none"]_vars

\* C2: a homing run entered with budget 3 and an all-open port, whose
\* interrupts arrive in the documented order, ends with the budget at 0, the
\* homing join able to return and the positions of all three steppers at 0.
C2_HomingRun ==
    script = Len(Documented) =>
        /\ pc \in {"mh_join", "sm_hjoin"}
        /\ home_queue.unf = 0
        /\ Joinable(home_queue.unf)
        /\ \A i \in Steppers : stepper[i].pos = 0

\* the seventh interrupt of the documented sequence has been handled
C2_Witness ==
    /\ script = Len(Documented)
    /\ op = "cb_interrupt" /\ arg = 248
    /\ home_queue.unf = 0

Halts(cmds) ==
    \E k \in 1..Len(cmds) : cmds[k][1] \in {"full_brake", "disable"}

\* C3: an end-stop closing while the status is not 'homing' is written to
\* the log and a brake or stop command is issued to a stepper.
C3_UnexpectedTriggerHalts ==
    (op = "cb_interrupt" /\ arg # 255 /\ status # "homing") =>
        (logged # <<>> /\ Halts(out))

\* C4: when the scan of a slice has completed, the entries handed to the
\* measurement pipeline are exactly the N*N plan targets, in plan order.
C4_MeasuredIsPlan ==
    op = "export" =>
        /\ Len(measured) = measurements * measurements
        /\ measured = Plan(measurements, x_start, y_start)

\* the targets on goto_queue ahead of 'end'
Planned == SubSeq(goto_queue.items, 1, Len(goto_queue.items) - 1)

\* C5: plan generation completes for every grid size N and leaves exactly
\* N*N targets, then 'end', on goto_queue and N*N markers on spec_queue.
C5_PlanLength ==
    op = "plan" =>
        /\ err = "none"
        /\ Len(Planned) = measurements * measurements
        /\ goto_queue.items[Len(goto_queue.items)] = EndItem
        /\ \A k \in 1..Len(Planned) : Planned[k].kind = "pos"
        /\ spec_queue = measurements * measurements

\* p is n rows of n targets, row i at y = ys + 1.5 s + i s, the even rows
\* with x increasing by s, the odd rows with the same x values reversed
Serpentine(p, n, ys) ==
    /\ Len(p) = n * n
    /\ \A i \in 0..(n - 1) : \A j \in 1..n :
        /\ p[i * n + j].y = ys + Spacing + HalfSpacing + i * Spacing
        /\ p[i * n + j].x =
              IF i % 2 = 0 THEN p[1].x + (j - 1) * Spacing
              ELSE p[1].x + (n - j) * Spacing

\* C6: the generated plan is N rows of N targets in serpentine order.
C6_SerpentineOrder ==
    op = "plan" => Serpentine(Planned, measurements, y_start)

\* C7: a join on home_queue, z_goto_queue, s1_queue or s2_queue returns only
\* from a state in which the unfinished count of that queue is 0.
C7_JoinAtZero ==
    [][/\ (pc \in {"mh_join", "sm_hjoin"} /\ pc' # pc) => home_queue.unf = 0
       /\ (pc = "sm_zjoin" /\ pc' # pc) => z_goto_queue = 0
       /\ (pc \in {"w_join", "w_endjoin"} /\ pc' # pc) =>
              (s1_queue = 0 /\ s2_queue = 0)]_vars

\* both axis joins of the worker have returned after moves were put and
\* reported
C7_Witness ==
    /\ op = "measure" /\ measured # <<>>
    /\ s1_queue = 0 /\ s2_queue = 0

CountsNonNegative ==
    /\ home_queue.unf >= 0 /\ s1_queue >= 0 /\ s2_queue >= 0
    /\ z_goto_queue >= 0 /\ goto_queue.unf >= 0 /\ measure_queue >= 0

\* the interrupt handler reached one of its home_queue.task_done() calls
ReleasesBudget(l) ==
    \E k \in 1..Len(l) : l[k] \in {"z homed", "homing process x finished",
                                   "homing process y finished"}

\* stepper i reported the end of its move in this step
Reported(i) == stepper[i].run /\ ~stepper'[i].run /\ op' = "position_reached"

\* C8: a task_done issued by s1arrived, s2arrived, z_reached or cb_interrupt
\* while the count of its queue is 0 raises and leaves the count at 0, and no
\* count is ever negative.
C8_ReleaseAtZero ==
    [][/\ CountsNonNegative'
       /\ (Reported(3) /\ z_goto_queue = 0) =>
              (err' = "ValueError" /\ z_goto_queue' = 0)
       /\ (Reported(1) /\ cb_registered /\ s1_queue = 0) =>
              (err' = "ValueError" /\ s1_queue' = 0)
       /\ (Reported(2) /\ cb_registered /\ s2_queue = 0) =>
              (err' = "ValueError" /\ s2_queue' = 0)
       /\ (op' = "cb_interrupt" /\ ReleasesBudget(logged') /\ home_queue.unf = 0) =>
              (err' = "ValueError" /\ home_queue'.unf = 0)]_vars

\* an arrival callback has just released a queue whose count was 0
C8_Witness ==
    /\ op = "position_reached" /\ err = "ValueError"
    /\ s1_queue = 0 /\ s2_queue = 0 /\ z_goto_queue = 0

\* C9: goto_position invoked while the status is not 'idle' changes no
\* velocity, issues no command to a stepper and changes no queue and no status.
C9_ModeGuard ==
    [][((\E t \in GotoTargets : GotoPosition(t)) /\ status # "idle") =>
          /\ out' = <<>>
          /\ UNCHANGED <<stepper, status, barriers, home_queue, goto_queue>>]_vars

\* goto_position has just returned in status 'measuring'
C9_Witness == op = "goto_position" /\ status = "measuring"

\* C10: home() entered from manual_homing or start_measurement while the
\* budget is 0 raises an error.
C10_RehomingRejected ==
    [][(op' \in {"manual_homing", "start_measurement"} /\ status' = "homing"
        /\ pc = "ready" /\ home_queue.unf = 0) => err' # "none"]_vars

\* C11: reset_home_queue invoked while the homing join is pending with a
\* budget of 1 or 2 raises and leaves the budget as it was.
C11_ResetDuringHoming ==
    [][(ResetWhileHoming /\ home_queue.unf \in {1, 2}) =>
          (err' # "none" /\ home_queue'.unf = home_queue.unf)]_vars

\* C12: the status is always one of idle, homing, measuring.
C12_ModeDomain == status \in {"idle", "homing", "measuring"}

\* C13: manual_homing, reset_home_queue and goto_position invoked while the
\* status is homing or measuring raise an error and change nothing.
C13_IdleOnly ==
    [][(pc = "ready" /\ status \in {"homing", "measuring"}
        /\ op' \in {"manual_homing", "reset_home_queue", "goto_position"}) =>
          /\ err' # "none"
          /\ UNCHANGED <<stepper, status, home_queue, barriers>>]_vars

\* a traversal of home(): a move of Traverse steps or drive_forward
Traversal(cmds) ==
    \E k \in 1..Len(cmds) :
        \/ cmds[k][1] = "drive_forward"
        \/ cmds[k][1] = "set_steps" /\ cmds[k][3] \in {Traverse, -Traverse}

C15_BudgetMeaning ==
    (entry # -1 /\ home_queue.unf = 0) => z_is_homed

\* C16: lists of different lengths end the construction with an error, and
\* an instance whose construction failed is never connected, commanded or
\* called back.
C16_ConfigError ==
    /\ (op = "init" /\ Len(z_queue) # Len(int_time_queue)) =>
            (pc = "aborted" /\ err # "none")
    /\ pc = "aborted" =>
            /\ op = "init" /\ out = <<>> /\ ~cb_registered
            /\ \A i \in Steppers : ~stepper[i].on /\ ~stepper[i].run

\* the construction with one slice and two integration times has failed
C16_Witness ==
    pc = "aborted" /\ Len(z_queue) = 1 /\ Len(int_time_queue) = 2

MainOps ==
    {"connect", "manual_homing", "homing_joined", "start_measurement", "plan",
     "worker_get", "measure", "worker_end", "export", "goto_position",
     "reset_home_queue", "change_status"}

CallbackOps == {"cb_interrupt", "position_reached"}

\* C17: a step of the main context lowers the count of no barrier, and a
\* callback raises the count of none.
C17_SingleWriter ==
    [][/\ op' \in MainOps =>
              /\ home_queue'.unf >= home_queue.unf
              /\ s1_queue' >= s1_queue /\ s2_queue' >= s2_queue
              /\ z_goto_queue' >= z_goto_queue
       /\ op' \in CallbackOps =>
              /\ home_queue'.unf <= home_queue.unf
              /\ s1_queue' <= s1_queue /\ s2_queue' <= s2_queue
              /\ z_goto_queue' <= z_goto_queue]_vars

\* C18: home() reading 255 sets only bool_home_y and drives steppers 1 and 2
\* in opposite directions; reading 253 it sets only bool_home_x and drives
\* both the same way; reading 252 it sets only bool_home_z and drives
\* stepper 3 forward.
C18_TransitionTable ==
    /\ LET c == home(Ctx, Reads(255))
       IN  /\ c.by /\ c.bx = bool_home_x /\ c.bz = bool_home_z
           /\ c.st[1].run /\ c.st[2].run
           /\ c.st[1].rem = -c.st[2].rem /\ c.st[1].rem \in {Traverse, -Traverse}
           /\ c.st[3] = stepper[3]
    /\ LET c == home(Ctx, Reads(253))
       IN  /\ c.bx /\ c.by = bool_home_y /\ c.bz = bool_home_z
           /\ c.st[1].run /\ c.st[2].run
           /\ c.st[1].rem = c.st[2].rem /\ c.st[1].rem \in {Traverse, -Traverse}
           /\ c.st[3] = stepper[3]
    /\ LET c == home(Ctx, Reads(252))
       IN  /\ c.bz /\ c.bx = bool_home_x /\ c.by = bool_home_y
           /\ c.st[3].fwd
           /\ c.st[1].rem = stepper[1].rem /\ c.st[2].rem = stepper[2].rem
           /\ c.st[1].run = stepper[1].run /\ c.st[2].run = stepper[2].run

\* home() has read 255 and started the Y traversal
C18_Witness ==
    /\ op = "manual_homing" /\ port = 255
    /\ bool_home_y /\ ~bool_home_x /\ ~bool_home_z
    /\ stepper[1].rem = -Traverse /\ stepper[2].rem = Traverse

\* C19: a homing run in which home() read 248 at entry is complete: the
\* homing join can return.
C19_HomeCompleteAtEntry ==
    (entry = 248 /\ pc \in {"mh_join", "sm_hjoin"}) => Joinable(home_queue.unf)

\* C20: in a homing run entered with budget 3 at 255, 253 or 252, once the
\* last axis of the chain, Z, is finalized and no axis is being homed any
\* more, the budget is 0 and the homing join can return.
C20_HomingCompletes ==
    (entry \in {255, 253, 252} /\ pc \in {"mh_join", "sm_hjoin"}
     /\ z_is_homed /\ ~bool_home_x /\ ~bool_home_y /\ ~bool_home_z) =>
        Joinable(home_queue.unf)

\* the four masks the homing sequence is documented for
Documented4 == {255, 253, 252, 248}

\* a command that sets a stepper in motion
Moves(cmds) ==
    \E k \in 1..Len(cmds) :
        cmds[k][1] \in {"set_steps", "set_target_position", "drive_forward"}

\* manual_homing or start_measurement has just entered home()
HomeEntered == op \in {"manual_homing", "start_measurement"} /\ status = "homing"

\* C21: home() entered while the port holds none of the four documented
\* masks sets no homing flag, issues no motion command and consumes no token.
C21_UnrecognizedNoTransition ==
    [][(HomeEntered' /\ pc = "ready" /\ port \notin Documented4) =>
          /\ UNCHANGED <<bool_home_x, bool_home_y, bool_home_z, home_queue>>
          /\ ~Moves(out')]_vars

\* the message of home() for a mask it does not handle
UnrecognizedLogged(l) ==
    \E k \in 1..Len(l) :
        l[k] \in {"should home, but nothing applies",
                  "only z triggered but not homed, driving backwards"}

\* C22: home() entered while the port holds none of the four documented
\* masks appends a message about it to write_out_buffer.
C22_UnrecognizedLogged ==
    (HomeEntered /\ err = "none" /\ port \notin Documented4) =>
        UnrecognizedLogged(logged)

\* the interrupt handler runs with mask m in status homing
HomingInterrupt(m) == status = "homing" /\ op' = "cb_interrupt" /\ arg' = m

\* both XY steppers were sent Retract steps, in either direction
Retracted(cmds) ==
    \A i \in {1, 2} : \E k \in 1..Len(cmds) :
        /\ cmds[k][1] = "set_steps" /\ cmds[k][2] = i
        /\ cmds[k][3] \in {Retract, -Retract}

\* the velocity of both XY steppers was set below max_vel
Slowed(cmds) ==
    \A i \in {1, 2} : \E k \in 1..Len(cmds) :
        /\ cmds[k][1] = "set_max_velocity" /\ cmds[k][2] = i
        /\ cmds[k][3] < max_vel

\* the step positions of both XY steppers were set to 0
Zeroed(cmds) ==
    \A i \in {1, 2} : \E k \in 1..Len(cmds) :
        cmds[k] = <<"set_current_position", i, 0>>

\* home() ran: only home() enables steppers 1 and 2
Reentered(cmds) ==
    \A i \in {1, 2} : \E k \in 1..Len(cmds) : cmds[k] = <<"enable", i, 0>>

\* the handler retracted and finalized nothing
FirstContact ==
    /\ Retracted(out') /\ Slowed(out') /\ ~Zeroed(out') /\ ~Reentered(out')
    /\ UNCHANGED <<home_queue, bool_home_x, bool_home_y>>

\* the handler set both positions to 0, consumed one token and ran home()
Finalized ==
    /\ Zeroed(out') /\ Reentered(out')
    /\ home_queue'.unf = home_queue.unf - 1

\* C23: an X contact (252 while bool_home_x) with home_counter2 = 0, and a Y
\* contact (253 while bool_home_y) with home_counter = 0, retracts 160 steps
\* at reduced velocity and finalizes nothing; with the counter >= 1 it zeroes
\* steppers 1 and 2, consumes one token, clears the flag and re-enters home().
C23_ContactHandling ==
    [][/\ (HomingInterrupt(252) /\ bool_home_x /\ home_counter2 = 0) => FirstContact
       /\ (HomingInterrupt(253) /\ bool_home_y /\ home_counter = 0) => FirstContact
       /\ (HomingInterrupt(252) /\ bool_home_x /\ home_counter2 >= 1) =>
              (Finalized /\ ~bool_home_x')
       /\ (HomingInterrupt(253) /\ bool_home_y /\ home_counter >= 1) =>
              (Finalized /\ ~bool_home_y')]_vars

\* bit 0 of the mask is low: the X end-stop is closed (254, 252, 248)
XClosed(m) == m % 2 = 0

\* bit 1 of the mask is low: the Y end-stop is closed (253, 252, 248)
YClosed(m) == (m \div 2) % 2 = 0

\* the first two commands are the full-brake of steppers 1 and 2
BrakesFirst(cmds) ==
    /\ Len(cmds) >= 2
    /\ cmds[1] = <<"full_brake", 1, 0>>
    /\ cmds[2] = <<"full_brake", 2, 0>>

\* C24: while bool_home_x (bool_home_y) is set in status homing, every
\* interrupt whose mask has the X (Y) end-stop closed brakes steppers 1 and 2
\* before any other command.
C24_BrakeOnContact ==
    [][(status = "homing" /\ op' = "cb_interrupt"
        /\ \/ bool_home_x /\ XClosed(arg')
           \/ bool_home_y /\ YClosed(arg')) => BrakesFirst(out')]_vars

\* the velocity of both XY steppers was set to RetryVel, then both were sent
\* Retract steps
Retried(cmds) ==
    /\ Retracted(cmds)
    /\ \A i \in {1, 2} : \E k \in 1..Len(cmds) :
          cmds[k] = <<"set_max_velocity", i, RetryVel>>

\* C25: while bool_home_x is set, an interrupt in which the X end-stop opens
\* again (252 -> 253) adds one to home_counter2 and re-issues a 160-step move
\* at velocity 1000; likewise bool_home_y, 253 -> 255 and home_counter; no
\* step lowers a retry counter.
C25_BounceRetry ==
    [][/\ (HomingInterrupt(253) /\ bool_home_x /\ port = 252) =>
              (home_counter2' = home_counter2 + 1 /\ Retried(out'))
       /\ (HomingInterrupt(255) /\ bool_home_y /\ port = 253) =>
              (home_counter' = home_counter + 1 /\ Retried(out'))
       /\ home_counter' >= home_counter
       /\ home_counter2' >= home_counter2]_vars

\* the commands of the Z finalization, in the order of the handler
ZFinalization ==
    <<<<"full_brake", 3, 0>>, <<"disable", 3, 0>>, <<"enable", 3, 0>>,
      <<"set_current_position", 3, 0>>>>

\* C26: an interrupt 248 while bool_home_z is set brakes stepper 3, disables
\* and enables it, sets its position to 0 and consumes one token, and that
\* token is the last: the budget is 0 afterwards.
C26_ZFinalization ==
    [][(HomingInterrupt(248) /\ bool_home_z) =>
          /\ out' = ZFinalization
          /\ home_queue'.unf = home_queue.unf - 1
          /\ home_queue'.unf = 0
          /\ z_is_homed' /\ ~bool_home_z']_vars

\* the mask whose branch home() took, read off what it logged and commanded;
\* 0 for the else branch ('should home, but nothing applies')
BranchTaken(l, cmds) ==
    IF \E k \in 1..Len(l) : l[k] = "homing y process started" THEN 255
    ELSE IF \E k \in 1..Len(l) : l[k] = "homing x process started" THEN 253
    ELSE IF \E k \in 1..Len(l) : l[k] = "homing z process started" THEN 252
    ELSE IF \E k \in 1..Len(l) : l[k] = "homing finished" THEN 248
    ELSE IF \E k \in 1..Len(cmds) : cmds[k] = <<"set_steps", 3, -ZBackSteps>>
         THEN 251
    ELSE 0

\* C27: the branch home() takes is the branch of a value the port held
\* during the call, and a call during which the port held only documented
\* masks does not end in the 'nothing applies' branch.
C27_SingleSnapshot ==
    (op = "manual_homing" /\ err = "none") =>
        LET held == {arg[k] : k \in 1..5}
            b == BranchTaken(logged, out)
        IN  /\ b # 0 => b \in held
            /\ held \subseteq Documented4 => b # 0

\* the number of homing flags that are set
FlagsSet ==
    Cardinality({f \in {"x", "y", "z"} :
                    \/ f = "x" /\ bool_home_x
                    \/ f = "y" /\ bool_home_y
                    \/ f = "z" /\ bool_home_z})

\* C28: at most one of bool_home_x, bool_home_y, bool_home_z is set.
C28_OneSubState == FlagsSet <= 1

\* a plan entry that is neither 'end' nor the target (0, 0)
Ordinary(it) == it.kind = "pos" /\ ~(it.x = 0 /\ it.y = 0)

\* entries the worker has taken from goto_queue and not yet marked done
InFlight == goto_queue.unf - Len(goto_queue.items)

\* exactly one move for stepper 1, then one for stepper 2
BothMoves(cmds) ==
    /\ Len(cmds) = 2
    /\ cmds[1][1] = "set_steps" /\ cmds[1][2] = 1
    /\ cmds[2][1] = "set_steps" /\ cmds[2][2] = 2

ParkMoves ==
    <<<<"set_steps", 1, Steps(ParkPos + ParkPos, stepper[1].pos)>>,
      <<"set_steps", 2, Steps(ParkPos - ParkPos, stepper[2].pos)>>>>

\* C30: taking 'end' the worker issues the move to (0.2, 0.2) and waits at
\* the axis joins; it leaves its loop only from a state with both counts 0,
\* and from taking 'end' to leaving the loop nothing is measured.
C30_EndSentinel ==
    [][/\ (WorkerGet /\ Head(goto_queue.items) = EndItem) =>
              /\ out' = ParkMoves
              /\ s1_queue' = s1_queue + 1 /\ s2_queue' = s2_queue + 1
              /\ pc' = "w_endjoin"
              /\ UNCHANGED <<measured, spec_queue, measure_queue>>
       /\ (pc = "w_endjoin" /\ pc' # pc) =>
              /\ s1_queue = 0 /\ s2_queue = 0
              /\ item = EndItem
              /\ pc' = "sm_gjoin"
              /\ UNCHANGED <<measured, spec_queue, measure_queue, stepper>>
       /\ pc = "w_endjoin" => UNCHANGED <<measured, spec_queue, measure_queue>>]_vars

\* the worker has left its loop with the stage parked at (0.2, 0.2)
C30_Witness ==
    /\ op = "worker_end" /\ pc = "sm_gjoin" /\ item = EndItem
    /\ measured # <<>>
    /\ s1_queue = 0 /\ s2_queue = 0
    /\ stepper[1].pos = Steps(ParkPos + ParkPos, 0) /\ stepper[2].pos = 0

\* C31: a plan entry equal to (0, 0) is sent to both steppers, marked done
\* and followed by the next goto_queue.get() without a wait on the axis
\* barriers or on measure_queue, and without a measurement.
C31_FastPath ==
    [][(WorkerGet /\ Head(goto_queue.items) = Target(0, 0)) =>
          /\ BothMoves(out')
          /\ s1_queue' = s1_queue + 1 /\ s2_queue' = s2_queue + 1
          /\ goto_queue'.unf = goto_queue.unf - 1
          /\ pc' = "w_get"
          /\ UNCHANGED <<measured, measure_queue, spec_queue>>]_vars

\* the worker has sent the stage to (0, 0) and is back at goto_queue.get()
C31_Witness ==
    /\ op = "worker_get" /\ item = Target(0, 0) /\ pc = "w_get"
    /\ s1_queue >= 1 /\ stepper[1].run

\* C32: a None entry is logged and marked done; no command is issued, no
\* barrier token is put, nothing is measured, and the worker goes on to the
\* next goto_queue.get().
C32_NoneSkipped ==
    [][(WorkerGet /\ Head(goto_queue.items) = NoItem) =>
          /\ logged' = <<"item is None">>
          /\ out' = <<>> /\ err' = "none"
          /\ goto_queue'.unf = goto_queue.unf - 1
          /\ pc' = "w_get"
          /\ UNCHANGED <<stepper, barriers, measured, measure_queue, spec_queue,
                         status>>]_vars

\* the worker has taken a None entry ahead of the plan and is back at
\* goto_queue.get() with the plan still on the queue
C32_Witness ==
    /\ op = "worker_get" /\ item = NoItem /\ pc = "w_get"
    /\ logged = <<"item is None">> /\ status = "measuring"
    /\ goto_queue.items # <<>> /\ goto_queue.unf = Len(goto_queue.items)

\* C33: every slice takes the head of int_time_queue and the head of z_queue,
\* so that both queues keep the same length; export runs from the returned
\* goto_queue.join() only, the next slice is started by export only, and
\* start_measurement ends by the export of the last slice, with both queues
\* empty.
C33_SliceSequencing ==
    [][/\ (StartMeasurement /\ err' = "none") =>
              /\ int_time' = Head(int_time_queue)
              /\ int_time_queue' = Tail(int_time_queue)
       /\ z_queue' # z_queue =>
              /\ z_queue' = Tail(z_queue)
              /\ Len(z_queue') = Len(int_time_queue')
       /\ op' = "export" =>
              /\ pc = "sm_gjoin" /\ goto_queue.unf = 0 /\ goto_queue.items = <<>>
              /\ pc' = IF z_queue = <<>> THEN "ready" ELSE "sm_next"
       /\ (pc = "sm_next" /\ pc' # pc) => op' = "start_measurement"
       /\ (pc # "ready" /\ pc' = "ready" /\ calls >= 1) =>
              /\ op' = "export"
              /\ z_queue' = <<>> /\ int_time_queue' = <<>>]_vars

\* int(343.33 * d - current): the step count for the documented factor
DocumentedSteps(d, current) == Trunc(34333 * d - 20000 * current, 20000)

\* C34: for a target (x, y) the worker sends axis 1 the step count
\* k*(x+y) - position and axis 2 the step count k*(x-y) - position, with
\* k = 343.33 steps per cm.
C34_CornerKinematics ==
    [][(WorkerGet /\ ~IsNone(Head(goto_queue.items))) =>
          LET it == Head(goto_queue.items)
              tgt == IF it = EndItem THEN EndTarget ELSE it
          IN  out' = <<<<"set_steps", 1,
                         DocumentedSteps(tgt.x + tgt.y, stepper[1].pos)>>,
                       <<"set_steps", 2,
                         DocumentedSteps(tgt.x - tgt.y, stepper[2].pos)>>>>]_vars

\* a traversal of home() that has not ended: a move of Traverse steps still
\* running, or a stepper still driven forward
TraversalInFlight ==
    \E i \in Steppers :
        \/ stepper[i].fwd
        \/ stepper[i].run /\ stepper[i].rem \in {Traverse, -Traverse}

\* C35: manual_homing and the homing phase of start_measurement leave status
\* homing only when homing is finished: Z, the last axis, is finalized, no
\* axis is being homed and no traversal of home() is still in flight.
C35_HomingLeftWhenFinished ==
    [][op' = "homing_joined" =>
          /\ z_is_homed
          /\ ~bool_home_x /\ ~bool_home_y /\ ~bool_home_z
          /\ ~TraversalInFlight]_vars

\* C36: s1arrived and s2arrived never call task_done on a barrier whose
\* count is 0: every move of stepper 1 or 2 that ends after the callbacks
\* are registered was preceded by a put on the barrier of its axis.
C36_ReleaseHasAcquire ==
    [][/\ (Reported(1) /\ cb_registered) => s1_queue > 0
       /\ (Reported(2) /\ cb_registered) => s2_queue > 0]_vars

\* the interrupt handler finalized the X or the Y axis
AxisFinalized(l) ==
    \E k \in 1..Len(l) : l[k] \in {"homing process x finished",
                                   "homing process y finished"}

\* C37: in every homing run the finalization of X (of Y) is preceded by a
\* contact of that axis that triggered a retraction: no axis is finalized on
\* its first contact, so none is finalized while no retraction has been
\* issued at all.
C37_RetractionFirst ==
    [][(op' = "cb_interrupt" /\ AxisFinalized(logged')) => retracts >= 1]_vars

\* worker('start') has just been entered with the plan and 'end' queued
WorkerStarted ==
    op = "plan" /\ err = "none" /\ pc = "w_get" /\ status = "measuring"

\* goto_queue.join() has returned: every target and 'end' were taken and
\* marked done, every target off the origin was measured, status is idle
WorkerTerminated ==
    /\ op = "export" /\ status = "idle" /\ item = EndItem
    /\ goto_queue.items = <<>> /\ goto_queue.unf = 0
    /\ measured = SelectSeq(Plan(measurements, x_start, y_start), Ordinary)

\* a move was replaced by the next one before it reported: two tokens wait
\* for one position-reached callback
Unreported == s1_queue > 1 \/ s2_queue > 1

\* C38: if every move reports position reached, a worker started in status
\* measuring takes the N*N targets and 'end' and ends; goto_queue is then at
\* 0, goto_queue.join() returns and the status goes back to idle.
C38_WorkerTerminates == WorkerStarted ~> (WorkerTerminated \/ Unreported)

\* a slice of the largest grid has been scanned to its end
C38_Witness ==
    /\ WorkerTerminated /\ ~Unreported
    /\ Len(measured) = measurements * measurements /\ measurements > 1

\* 0.585 cm, the offset of the first pixel from the start corner
PixelOrigin == 117

\* round(a / b, 0) for b > 0: the nearest integer, a tie going to the even one
RoundHalfEven(a, b) ==
    LET q == a \div b
        r == a % b
    IN  IF 2 * r < b THEN q
        ELSE IF 2 * r > b THEN q + 1
        ELSE IF q % 2 = 0 THEN q ELSE q + 1

\* round(v, 2): v in units of 0.005 cm rounded to a multiple of 0.01 cm
Round2(v) == 2 * RoundHalfEven(v, 2)

\* transfer(item): the index at which the result of item is stored
counter(it) ==
    LET y_pos == it.y - y_start
        x_pos == it.x - x_start
    IN  RoundHalfEven(Round2(y_pos - PixelOrigin) * measurements
                        + Round2(x_pos - PixelOrigin), Spacing)

\* the indices of the entries of p are distinct and are 0 .. N*N - 1
IndexBijection(p) ==
    /\ \A j, k \in 1..Len(p) : counter(p[j]) = counter(p[k]) => j = k
    /\ {counter(p[k]) : k \in 1..Len(p)} = 0..(measurements * measurements - 1)

\* C39: within one slice the index transfer() computes is distinct for every
\* plan target and covers 0 .. N*N - 1, so that the scan of the slice writes
\* every entry of the result arrays exactly once.
C39_IndexBijection ==
    /\ op = "plan" => IndexBijection(Planned)
    /\ op = "export" => IndexBijection(measured)

\* a command was sent to stepper 3
ZCommanded(cmds) == \E k \in 1..Len(cmds) : cmds[k][2] = 3

\* start_measurement has just run goto_z_position for the next slice
ZPositioning == pc # "sm_zjoin" /\ pc' = "sm_zjoin"

\* C40: for every slice the worker takes its first plan entry only after the
\* token that goto_z_position put on z_goto_queue has been released by
\* z_reached; a slice whose z position is below 0 or above 55 sends no
\* command to stepper 3 and puts no token.
C40_ScanAfterZ ==
    [][/\ (ZPositioning /\ 0 <= Head(z_queue) /\ Head(z_queue) <= ZMax) =>
              /\ z_goto_queue' = z_goto_queue + 1
              /\ ZCommanded(out')
              /\ \A k \in 1..Len(out') : out'[k][2] = 3 =>
                    out'[k] = <<"set_target_position", 3, ZTarget(Head(z_queue))>>
       /\ (ZPositioning /\ (Head(z_queue) < 0 \/ Head(z_queue) > ZMax)) =>
              /\ z_goto_queue' = z_goto_queue
              /\ ~ZCommanded(out') /\ stepper'[3] = stepper[3]
       /\ (pc = "sm_zjoin" /\ z_goto_queue' # z_goto_queue) =>
              (Reported(3) /\ z_goto_queue' = z_goto_queue - 1)
       /\ (pc = "sm_zjoin" /\ pc' # pc) => (op' = "plan" /\ z_goto_queue = 0)
       /\ WorkerGet => z_goto_queue = 0]_vars

\* the worker has taken the first entry of a second slice whose z position
\* is out of range, the Z stage standing where the first slice put it
C40_Witness ==
    /\ op = "worker_get" /\ measured = <<>> /\ int_time = 2
    /\ z_goto_queue = 0
    /\ stepper[3].pos = ZTarget(10) /\ ~stepper[3].run

====
